---------------------------- MODULE Spec2Model ----------------------------
(***************************************************************************)
(* Model of the Startup SG scraper: URL discovery                          *)
(* (StartupSGScraper.get_all_startup_urls), profile extraction             *)
(* (StartupSGScraper.scrape_profile) and the driver loop of main().        *)
(*                                                                         *)
(* Python strings are modelled as sequences of one-character strings, so   *)
(* that lower(), strip(), split(), slicing, substring tests, the two       *)
(* regular expressions and sorted() are computed rather than assumed.      *)
(***************************************************************************)
EXTENDS Integers, Sequences, FiniteSets, TLC

(***************************************************************************)
(* Python str operations                                                   *)
(***************************************************************************)
Digits == {"0","1","2","3","4","5","6","7","8","9"}

UpperLetters == <<"A","B","C","D","E","F","G","H","I","J","K","L","M","N","O","P","Q","R","S","T","U","V","W","X","Y","Z">>

LowerLetters == <<"a","b","c","d","e","f","g","h","i","j","k","l","m","n","o","p","q","r","s","t","u","v","w","x","y","z">>

\* the characters of the model in ascending code-point order
CodePoints == <<"\n"," ","!","\"","#","'","+",",","-",".","/","0","1","2","3","4","5","6","7","8","9",":","<","=",">","?","@">> \o UpperLetters \o <<"[","]","_">> \o LowerLetters \o <<"{","}">>

Ord(c) == CHOOSE i \in 1..Len(CodePoints) : CodePoints[i] = c

LowerChar(c) ==
    IF \E i \in 1..Len(UpperLetters) : UpperLetters[i] = c
    THEN LowerLetters[CHOOSE i \in 1..Len(UpperLetters) : UpperLetters[i] = c]
    ELSE c

\* str.lower()
Lower(s) == [i \in 1..Len(s) |-> LowerChar(s[i])]

IsSpace(c) == c \in {" ", "\n", "\t"}

\* str.strip()
Strip(s) ==
    IF \A i \in 1..Len(s) : IsSpace(s[i]) THEN <<>>
    ELSE LET lo == CHOOSE i \in 1..Len(s) :
                      ~IsSpace(s[i]) /\ \A j \in 1..(i - 1) : IsSpace(s[j])
             hi == CHOOSE i \in 1..Len(s) :
                      ~IsSpace(s[i]) /\ \A j \in (i + 1)..Len(s) : IsSpace(s[j])
         IN  SubSeq(s, lo, hi)

\* s.startswith(p)
StartsWith(s, p) == Len(p) <= Len(s) /\ SubSeq(s, 1, Len(p)) = p

\* sub occurs in s at position i
OccursAt(s, sub, i) ==
    i >= 1 /\ i + Len(sub) - 1 <= Len(s) /\ SubSeq(s, i, i + Len(sub) - 1) = sub

\* sub in s
Contains(s, sub) == \E i \in 1..(Len(s) + 1) : OccursAt(s, sub, i)

\* s < t in Python's string order (code points, shorter prefix first)
StrLess(s, t) ==
    \E k \in 1..(Len(t)) :
        /\ k - 1 <= Len(s)
        /\ SubSeq(s, 1, k - 1) = SubSeq(t, 1, k - 1)
        /\ \/ Len(s) = k - 1
           \/ Len(s) >= k /\ Ord(s[k]) < Ord(t[k])

\* s[:n]
Prefix(s, n) == SubSeq(s, 1, IF Len(s) < n THEN Len(s) ELSE n)

\* sorted(list(set)) of strings
RECURSIVE Sorted(_)
Sorted(S) ==
    IF S = {} THEN <<>>
    ELSE LET m == CHOOSE x \in S : \A y \in S : x = y \/ StrLess(x, y)
         IN  <<m>> \o Sorted(S \ {m})

Range(f) == {f[i] : i \in DOMAIN f}

(***************************************************************************)
(* JSON-like values: the renderer's script results and parsed script blocks *)
(***************************************************************************)
JNull == [t |-> "null", s |-> <<>>, n |-> 0, items |-> <<>>]

JStr(s) == [t |-> "str", s |-> s, n |-> 0, items |-> <<>>]

JInt(n) == [t |-> "int", s |-> <<>>, n |-> n, items |-> <<>>]

\* a list: items is the sequence of its elements
JList(items) == [t |-> "list", s |-> <<>>, n |-> 0, items |-> items]

\* a dict: items is the sequence of its <<key, value>> pairs in insertion order
JDict(items) == [t |-> "dict", s |-> <<>>, n |-> 0, items |-> items]

DigitChars == <<"0","1","2","3","4","5","6","7","8","9">>

\* str(n) for an int n >= 0
RECURSIVE IntToStr(_)
IntToStr(n) ==
    IF n < 10 THEN <<DigitChars[n + 1]>>
    ELSE IntToStr(n \div 10) \o <<DigitChars[(n % 10) + 1]>>

\* str(v) of a scalar
PyStr(v) ==
    CASE v.t = "str" -> v.s
      [] v.t = "int" -> IntToStr(v.n)
      [] OTHER -> <<"N","o","n","e">>

\* bool(v)
Truthy(v) ==
    CASE v.t = "str" -> v.s # <<>>
      [] v.t = "int" -> v.n # 0
      [] v.t = "null" -> FALSE
      [] OTHER -> v.items # <<>>

(***************************************************************************)
(* URL discovery: StartupSGScraper.get_all_startup_urls                    *)
(***************************************************************************)
base_url == <<"h","t","t","p","s",":","/","/","w","w","w",".","s","t","a","r","t","u","p","s","g",".","g","o","v",".","s","g">>

max_pages == 1000

profiles_marker == <<"/","p","r","o","f","i","l","e","s","/">>

Quotes == {"\"", "'"}

Href(s) == [present |-> TRUE, href |-> s]

NoHref == [present |-> FALSE, href |-> <<>>]

\* The rendered directory pages of the model: the anchors of the live DOM
\* (href attribute, possibly missing), the raw markup, and the embedded
\* client-state tree.
DirPages == <<
    [anchors |-> << Href(base_url \o <<"/","p","r","o","f","i","l","e","s","/","1">>), Href(base_url \o <<"/","p","r","o","f","i","l","e","s","/","2">>) >>,
     page_source |-> <<"<","a"," ","h","r","e","f","=","\"","/","p","r","o","f","i","l","e","s","/","1","\"",">","<","a"," ","h","r","e","f","=","'","/","p","r","o","f","i","l","e","s","/","2","'",">">>,
     state |-> JDict(<< << <<"i","t","e","m","s">>, JList(<< JDict(<< << <<"i","d">>, JInt(1) >> >>),
                                              JDict(<< << <<"i","d">>, JStr(<<"2">>) >> >>) >>) >> >>) ],
    [anchors |-> << Href(<<"/","p","r","o","f","i","l","e","s","/","2">>), Href(base_url \o <<"/","p","r","o","f","i","l","e","s","/","3">>) >>,
     page_source |-> <<"<","a"," ","h","r","e","f","=","\"","/","p","r","o","f","i","l","e","s","/","2","\"",">","x","<","/","a",">">>,
     state |-> JNull ],
    [anchors |-> << Href(base_url \o <<"/","p","r","o","f","i","l","e","s","/","a","b","o","u","t">>), NoHref, Href(<<"f","t","p",":","/","/","x","/","p","r","o","f","i","l","e","s","/","7">>) >>,
     page_source |-> <<"<","i"," ","d","=","'","x","/","p","r","o","f","i","l","e","s","/","6","'",">","\"","/","p","r","o","f","i","l","e","s","/","5","/","p","r","o","f","i","l","e","s","/","\"">>,
     state |-> JList(<<>>) ],
    [anchors |-> << Href(base_url \o <<"/","d","i","r","e","c","t","o","r","y","/","s","t","a","r","t","u","p","s">>) >>,
     page_source |-> <<"<","p",">","n","o","n","e","<","/","p",">">>,
     state |-> JDict(<< << <<"d","a","t","a">>, JDict(<< << <<"i","d">>, JInt(42) >>,
                                              << <<"o","w","n","e","r">>, JDict(<< << <<"i","d">>, JStr(<<"4","3">>) >> >>) >> >>) >> >>) ]
>>

\* href normalisation of both harvesting methods
Normalize(href) ==
    IF StartsWith(href, <<"/">>) THEN base_url \o href
    ELSE IF ~StartsWith(href, <<"h","t","t","p">>) THEN base_url \o <<"/">> \o href
    ELSE href

\* Method 1: the anchors of the DOM. upto is the number of anchors read before
\* the renderer raises (Len(anchors) or more: it does not raise).
AnchorUrls(anchors, upto) ==
    { Normalize(anchors[i].href) :
        i \in { j \in 1..Len(anchors) :
                  /\ j <= upto
                  /\ anchors[j].present
                  /\ anchors[j].href # <<>>
                  /\ Contains(anchors[j].href, profiles_marker) } }

\* the longest run of digits of s that starts at position i
DigitRun(s, i) ==
    LET ends == { j \in (i - 1)..Len(s) : \A k \in i..j : s[k] \in Digits }
    IN  SubSeq(s, i, CHOOSE j \in ends : \A k \in ends : k <= j)

\* seg matches  [^"']*?/profiles/\d+  to its end
EndsWithProfileId(seg) ==
    \E k \in 1..Len(seg) :
        /\ OccursAt(seg, profiles_marker, k)
        /\ k + Len(profiles_marker) <= Len(seg)
        /\ \A j \in (k + Len(profiles_marker))..Len(seg) : seg[j] \in Digits

\* re.findall(r'["\']([^"\']*?/profiles/\d+)["\']', s) as a set, scanning from i
RECURSIVE FindQuotedProfiles(_, _)
FindQuotedProfiles(s, i) ==
    IF i > Len(s) THEN {}
    ELSE IF s[i] \notin Quotes THEN FindQuotedProfiles(s, i + 1)
    ELSE LET later == { j \in (i + 1)..Len(s) : s[j] \in Quotes }
         IN  IF later = {} THEN {}
             ELSE LET j == CHOOSE x \in later : \A y \in later : x <= y
                      seg == SubSeq(s, i + 1, j - 1)
                  IN  IF EndsWithProfileId(seg)
                      THEN {seg} \cup FindQuotedProfiles(s, j + 1)
                      ELSE FindQuotedProfiles(s, i + 1)

\* re.findall(r'/profiles/(\d+)', s) as a set
FindProfileIds(s) ==
    { DigitRun(s, k + Len(profiles_marker)) :
        k \in { i \in 1..Len(s) :
                  /\ OccursAt(s, profiles_marker, i)
                  /\ i + Len(profiles_marker) <= Len(s)
                  /\ s[i + Len(profiles_marker)] \in Digits } }

\* Method 2: the raw markup
SourceUrls(page_source) ==
    { Normalize(m) : m \in FindQuotedProfiles(page_source, 1) }
        \cup { base_url \o profiles_marker \o id : id \in FindProfileIds(page_source) }

\* _extract_urls_from_current_page: each method contributes nothing more once
\* the renderer has raised inside it
ExtractUrlsFromCurrentPage(page, upto, source_ok) ==
    AnchorUrls(page.anchors, upto)
        \cup (IF source_ok THEN SourceUrls(page.page_source) ELSE {})

\* _extract_ids_from_data
RECURSIVE ExtractIdsFromData(_)
ExtractIdsFromData(data) ==
    LET RECURSIVE Each(_, _)
        Each(items, k) ==
            IF k > Len(items) THEN <<>>
            ELSE ExtractIdsFromData(IF data.t = "dict" THEN items[k][2] ELSE items[k])
                     \o Each(items, k + 1)
        own == IF /\ data.t = "dict"
                  /\ \E k \in 1..Len(data.items) :
                        data.items[k][1] = <<"i","d">> /\ data.items[k][2].t \in {"int", "str"}
               THEN << PyStr(data.items[CHOOSE k \in 1..Len(data.items) :
                                           data.items[k][1] = <<"i","d">>][2]) >>
               ELSE <<>>
    IN  IF data.t \in {"dict", "list"} THEN own \o Each(data.items, 1) ELSE <<>>


(***************************************************************************)
(* Profile extraction: the pure parts of StartupSGScraper.scrape_profile   *)
(***************************************************************************)
\* dict operations; a record under construction is a function from keys
\* (strings) to values
Has(d, k) == k \in DOMAIN d

Put(d, k, v) == [x \in (DOMAIN d) \cup {k} |-> IF x = k THEN v ELSE d[x]]

\* `field not in profile_data or not profile_data[field]`
Unset(d, k) == ~Has(d, k) \/ ~Truthy(d[k])

\* sep.join(parts)
RECURSIVE Join(_, _)
Join(parts, sep) ==
    IF parts = <<>> THEN <<>>
    ELSE IF Len(parts) = 1 THEN parts[1]
    ELSE parts[1] \o sep \o Join(Tail(parts), sep)

\* ', '.join(str(v) for v in value); the lists of the model hold scalars
JoinValues(items) == Join([i \in 1..Len(items) |-> PyStr(items[i])], <<","," ">>)

\* _extract_profile_id: re.search(r'/profiles/(\d+)', url)
ExtractProfileId(url) ==
    LET hits == { i \in 1..Len(url) :
                    /\ OccursAt(url, profiles_marker, i)
                    /\ i + Len(profiles_marker) <= Len(url)
                    /\ url[i + Len(profiles_marker)] \in Digits }
    IN  IF hits = {} THEN JNull
        ELSE JStr(DigitRun(url, (CHOOSE i \in hits : \A j \in hits : i <= j)
                                    + Len(profiles_marker)))

\* field_mapping of _extract_profile_from_js, as <<key, field>> pairs
js_field_mapping == <<
    << <<"n","a","m","e">>, <<"n","a","m","e">> >>, << <<"c","o","m","p","a","n","y","N","a","m","e">>, <<"n","a","m","e">> >>, << <<"t","i","t","l","e">>, <<"n","a","m","e">> >>,
    << <<"d","e","s","c","r","i","p","t","i","o","n">>, <<"d","e","s","c","r","i","p","t","i","o","n">> >>, << <<"a","b","o","u","t">>, <<"d","e","s","c","r","i","p","t","i","o","n">> >>,
    << <<"i","n","d","u","s","t","r","y">>, <<"i","n","d","u","s","t","r","y">> >>, << <<"s","e","c","t","o","r">>, <<"s","e","c","t","o","r">> >>,
    << <<"l","o","c","a","t","i","o","n">>, <<"l","o","c","a","t","i","o","n">> >>, << <<"w","e","b","s","i","t","e">>, <<"w","e","b","s","i","t","e">> >>,
    << <<"u","r","l">>, <<"w","e","b","s","i","t","e">> >>, << <<"e","m","a","i","l">>, <<"e","m","a","i","l">> >>, << <<"p","h","o","n","e">>, <<"p","h","o","n","e">> >>,
    << <<"f","o","u","n","d","e","d">>, <<"f","o","u","n","d","e","d">> >>, << <<"f","o","u","n","d","e","d","Y","e","a","r">>, <<"f","o","u","n","d","e","d">> >>,
    << <<"e","m","p","l","o","y","e","e","s">>, <<"e","m","p","l","o","y","e","e","s">> >>, << <<"f","u","n","d","i","n","g">>, <<"f","u","n","d","i","n","g">> >>,
    << <<"s","t","a","g","e">>, <<"s","t","a","g","e">> >>, << <<"t","a","g","s">>, <<"t","a","g","s">> >> >>

\* `k in mapping` and `mapping[k]` for a mapping given as pairs
InMapping(mapping, k) == \E i \in 1..Len(mapping) : mapping[i][1] = k

Lookup(mapping, k) == mapping[CHOOSE i \in 1..Len(mapping) : mapping[i][1] = k][2]

\* the key test of traverse: `key.lower() in field_mapping`
JsKeyMatches(key) == InMapping(js_field_mapping, Lower(key))

\* lines 569-575: one key/value pair of a mapping node
JsTakeField(extracted, key, value) ==
    IF ~JsKeyMatches(key) THEN extracted
    ELSE LET field_name == Lookup(js_field_mapping, Lower(key))
         IN  IF ~Unset(extracted, field_name) THEN extracted
             ELSE IF value.t \in {"str", "int"}
                  THEN Put(extracted, field_name, JStr(PyStr(value)))
             ELSE IF value.t = "list" /\ value.items # <<>>
                  THEN Put(extracted, field_name, JStr(JoinValues(value.items)))
             ELSE extracted

\* traverse of _extract_profile_from_js, threading extracted through the walk
RECURSIVE Traverse(_, _)
Traverse(obj, extracted) ==
    LET RECURSIVE Each(_, _)
        Each(k, acc) ==
            IF k > Len(obj.items) THEN acc
            ELSE IF obj.t = "dict"
                 THEN Each(k + 1, Traverse(obj.items[k][2],
                                           JsTakeField(acc, obj.items[k][1], obj.items[k][2])))
                 ELSE Each(k + 1, Traverse(obj.items[k], acc))
    IN  IF obj.t \in {"dict", "list"} THEN Each(1, extracted) ELSE extracted

\* _extract_profile_from_js
ExtractProfileFromJs(js_data) == Traverse(js_data, <<>>)

\* dict.update
Update(d, e) == [x \in (DOMAIN d) \cup (DOMAIN e) |-> IF x \in DOMAIN e THEN e[x] ELSE d[x]]

\* lines 396-398: the client-state stage once the script has returned js_data
ClientStateStage(data, js_data) ==
    IF Truthy(js_data) THEN Update(data, ExtractProfileFromJs(js_data)) ELSE data

name_key == <<"n","a","m","e">>

\* number of name selectors (the list of lines 403-411)
NumNameSelectors == 7

\* lines 416-421: the first element text that is non-empty and under 200
\* characters, if any, as a sequence of at most one string
FirstNameText(elements) ==
    LET ok == { i \in 1..Len(elements) :
                  Len(Strip(elements[i])) > 0 /\ Len(Strip(elements[i])) < 200 }
    IN  IF ok = {} THEN <<>>
        ELSE << Strip(elements[CHOOSE i \in ok : \A j \in ok : i <= j]) >>

\* lines 413-425: the selectors in order from k on; raises is the set of
\* selectors inside which the renderer raises
RECURSIVE NameHeuristics(_, _, _, _)
NameHeuristics(data, selectors, raises, k) ==
    IF k > NumNameSelectors THEN data
    ELSE IF k \in raises THEN NameHeuristics(data, selectors, raises, k + 1)
    ELSE LET found == FirstNameText(selectors[k])
             next == IF found # <<>> /\ Unset(data, name_key)
                     THEN Put(data, name_key, JStr(found[1]))
                     ELSE data
         IN  IF ~Unset(next, name_key) THEN next
             ELSE NameHeuristics(next, selectors, raises, k + 1)

\* s.split('\n')
SplitLines(s) ==
    LET nl == { i \in 1..Len(s) : s[i] = "\n" }
        nth(k) == IF k = 0 THEN 0
                  ELSE IF k > Cardinality(nl) THEN Len(s) + 1
                  ELSE CHOOSE i \in nl : Cardinality({ j \in nl : j <= i }) = k
    IN  [k \in 1..(Cardinality(nl) + 1) |-> SubSeq(s, nth(k - 1) + 1, nth(k) - 1)]

\* field_mapping of the label/value scan, as <<keyword, field>> pairs
label_field_mapping == <<
    << <<"i","n","d","u","s","t","r","y">>, <<"i","n","d","u","s","t","r","y">> >>, << <<"s","e","c","t","o","r">>, <<"s","e","c","t","o","r">> >>,
    << <<"f","o","u","n","d","e","d">>, <<"f","o","u","n","d","e","d">> >>, << <<"l","o","c","a","t","i","o","n">>, <<"l","o","c","a","t","i","o","n">> >>,
    << <<"w","e","b","s","i","t","e">>, <<"w","e","b","s","i","t","e">> >>, << <<"e","m","a","i","l">>, <<"e","m","a","i","l">> >>, << <<"p","h","o","n","e">>, <<"p","h","o","n","e">> >>,
    << <<"e","m","p","l","o","y","e","e","s">>, <<"e","m","p","l","o","y","e","e","s">> >>, << <<"f","u","n","d","i","n","g">>, <<"f","u","n","d","i","n","g">> >>,
    << <<"s","t","a","g","e">>, <<"s","t","a","g","e">> >>, << <<"d","e","s","c","r","i","p","t","i","o","n">>, <<"d","e","s","c","r","i","p","t","i","o","n">> >>,
    << <<"a","b","o","u","t">>, <<"d","e","s","c","r","i","p","t","i","o","n">> >>, << <<"t","a","g","s">>, <<"t","a","g","s">> >> >>

\* lines 464-468: mutation without the `field not in profile_data` guard
LabelTakeField_Overwrite(data, label, value) ==
    LET hits == { i \in 1..Len(label_field_mapping) :
                    Contains(label, label_field_mapping[i][1]) }
    IN  IF hits = {} THEN data
        ELSE Put(data, label_field_mapping[CHOOSE i \in hits : \A j \in hits : i <= j][2],
                 JStr(value))

\* lines 464-468: the first keyword contained in the label decides the field
LabelTakeField(data, label, value) ==
    LET hits == { i \in 1..Len(label_field_mapping) :
                    Contains(label, label_field_mapping[i][1]) }
    IN  IF hits = {} THEN data
        ELSE LET field == label_field_mapping[CHOOSE i \in hits : \A j \in hits : i <= j][2]
             IN  IF Unset(data, field) THEN Put(data, field, JStr(value)) ELSE data

\* lines 436-468: one line of the body text
LabelScanLine(data, raw) ==
    LET line == Strip(raw)
    IN  IF line = <<>> \/ ~Contains(line, <<":">>) THEN data
        ELSE LET c == CHOOSE i \in 1..Len(line) :
                        line[i] = ":" /\ \A j \in 1..(i - 1) : line[j] # ":"
             IN  LabelTakeField(data,
                                Lower(Strip(SubSeq(line, 1, c - 1))),
                                Strip(SubSeq(line, c + 1, Len(line))))

\* lines 432-468: the label/value scan over the lines of page_text
LabelScan(data, text) ==
    LET lines == SplitLines(text)
        RECURSIVE Each(_, _)
        Each(k, acc) == IF k > Len(lines) THEN acc
                        ELSE Each(k + 1, LabelScanLine(acc, lines[k]))
    IN  Each(1, data)

description_key == <<"d","e","s","c","r","i","p","t","i","o","n">>

\* lines 471-481: the paragraph fallback for the description
DescriptionStage(data, paragraphs) ==
    IF ~Unset(data, description_key) THEN data
    ELSE LET texts == [i \in 1..Len(paragraphs) |-> Strip(paragraphs[i])]
             descriptions == SelectSeq(texts, LAMBDA t : Len(t) > 50)
         IN  IF descriptions # <<>>
             THEN Put(data, description_key,
                      JStr(Join(SubSeq(descriptions, 1,
                                       IF Len(descriptions) < 3 THEN Len(descriptions) ELSE 3),
                                <<" ">>)))
             ELSE data

\* s.replace(sub, "")
RECURSIVE Remove(_, _)
Remove(s, sub) ==
    IF s = <<>> THEN <<>>
    ELSE IF StartsWith(s, sub) THEN Remove(SubSeq(s, Len(sub) + 1, Len(s)), sub)
    ELSE <<s[1]>> \o Remove(Tail(s), sub)

website_key == <<"w","e","b","s","i","t","e">>

email_key == <<"e","m","a","i","l">>

\* lines 487-501: outbound links
LinkStage(data, links) ==
    LET hrefs == SelectSeq(links, LAMBDA l : l.present /\ l.href # <<>>)
        websites == SelectSeq(hrefs, LAMBDA l : /\ StartsWith(l.href, <<"h","t","t","p">>)
                                                /\ ~Contains(l.href, <<"s","t","a","r","t","u","p","s","g",".","g","o","v",".","s","g">>))
        emails == SelectSeq(hrefs, LAMBDA l : /\ ~(/\ StartsWith(l.href, <<"h","t","t","p">>)
                                                   /\ ~Contains(l.href, <<"s","t","a","r","t","u","p","s","g",".","g","o","v",".","s","g">>))
                                              /\ StartsWith(l.href, <<"m","a","i","l","t","o",":">>))
        with_site == IF websites # <<>> /\ ~Has(data, website_key)
                     THEN Put(data, website_key, JStr(websites[1].href))
                     ELSE data
    IN  IF emails # <<>> /\ ~Has(with_site, email_key)
        THEN Put(with_site, email_key, JStr(Remove(emails[1].href, <<"m","a","i","l","t","o",":">>)))
        ELSE with_site

\* _flatten_dict, as the list of <<key, value>> pairs of the dict it returns
RECURSIVE FlattenDict(_, _)
FlattenDict(d, parent_key) ==
    LET NewKey(k) == IF parent_key # <<>> THEN parent_key \o <<"_">> \o k ELSE k
        RECURSIVE Each(_)
        Each(i) ==
            IF i > Len(d.items) THEN <<>>
            ELSE LET k == d.items[i][1]
                     v == d.items[i][2]
                     here == IF v.t = "dict" THEN FlattenDict(v, NewKey(k))
                             ELSE IF v.t = "list" THEN << << NewKey(k), JStr(JoinValues(v.items)) >> >>
                             ELSE << << NewKey(k), v >> >>
                 IN  here \o Each(i + 1)
        items == Each(1)
        keys == { items[i][1] : i \in 1..Len(items) }
        \* dict(items): a key keeps the position of its first pair and the value of its last
        firsts == SelectSeq([i \in 1..Len(items) |-> i],
                            LAMBDA i : \A j \in 1..(i - 1) : items[j][1] # items[i][1])
        last(k) == CHOOSE i \in 1..Len(items) :
                      items[i][1] = k /\ \A j \in (i + 1)..Len(items) : items[j][1] # k
    IN  [n \in 1..Len(firsts) |-> << items[firsts[n]][1], items[last(items[firsts[n]][1])][2] >>]

\* lines 519-521: mutation without the `key not in profile_data` guard
RECURSIVE MergeFlattened_Overwrite(_, _, _)
MergeFlattened_Overwrite(data, flattened, i) ==
    IF i > Len(flattened) THEN data
    ELSE MergeFlattened_Overwrite(Put(data, flattened[i][1], flattened[i][2]), flattened, i + 1)

\* lines 519-521: merge the flattened pairs into the record
RECURSIVE MergeFlattened(_, _, _)
MergeFlattened(data, flattened, i) ==
    IF i > Len(flattened) THEN data
    ELSE MergeFlattened(IF Unset(data, flattened[i][1])
                        THEN Put(data, flattened[i][1], flattened[i][2])
                        ELSE data,
                        flattened, i + 1)

\* lines 512-523: the script blocks in order; a block without text, one that is
\* not valid JSON and one that is not a mapping contribute nothing
RECURSIVE JsonStage(_, _, _)
JsonStage(data, scripts, i) ==
    IF i > Len(scripts) THEN data
    ELSE JsonStage(IF scripts[i].has_string /\ scripts[i].valid /\ scripts[i].parsed.t = "dict"
                   THEN MergeFlattened(data, FlattenDict(scripts[i].parsed, <<>>), 1)
                   ELSE data,
                   scripts, i + 1)

full_text_key == <<"f","u","l","l","_","t","e","x","t">>

full_text_limit == 3000

\* lines 526-527
FullTextStage(data, text) ==
    IF text # <<>> THEN Put(data, full_text_key, JStr(Prefix(text, full_text_limit))) ELSE data

(***************************************************************************)
(* The rendered profile pages of the model                                 *)
(***************************************************************************)
Script(parsed) == [has_string |-> TRUE, valid |-> TRUE, parsed |-> parsed]

\* a script block whose text is not valid JSON
BadScript == [has_string |-> TRUE, valid |-> FALSE, parsed |-> JNull]

\* a script block without text (script.string is None)
EmptyScript == [has_string |-> FALSE, valid |-> FALSE, parsed |-> JNull]

NoElements == [k \in 1..NumNameSelectors |-> <<>>]

Filler(c, n) == [i \in 1..n |-> c]

\* Each page gives what the renderer returns for it: the client-state object
\* of the script, the element texts per name selector, the body text, the
\* paragraph texts, the anchors, and the application/json script blocks.
ProfilePages == <<
    \* 1: client state with a mixed-case key, one label line, nothing else
    [js_data |-> JDict(<< << <<"c","o","m","p","a","n","y","N","a","m","e">>, JStr(<<"A","c","m","e">>) >>,
                          << <<"s","e","c","t","o","r">>, JStr(<<"F","i","n","t","e","c","h">>) >> >>),
     selectors |-> NoElements,
     body_text |-> <<"F","o","u","n","d","e","d",":"," ","2","0","1","9">>,
     paragraphs |-> <<>>,
     links |-> <<>>,
     scripts |-> <<>>],
    \* 2: every source present, with conflicting values
    [js_data |-> JDict(<< << <<"d","a","t","a">>, JList(<< JDict(<<
                          << <<"N","a","m","e">>, JStr(<<"B","e","t","a">>) >>,
                          << <<"i","n","d","u","s","t","r","y">>, JStr(<<"F","i","n","t","e","c","h">>) >>,
                          << <<"T","A","G","S">>, JList(<< JStr(<<"a","i">>), JInt(7) >>) >>,
                          << <<"p","h","o","n","e">>, JStr(<<>>) >>,
                          << <<"m","e","t","a">>, JDict(<< << <<"t","i","t","l","e">>, JStr(<<"O","t","h","e","r">>) >>,
                                                << <<"p","h","o","n","e">>, JInt(65) >> >>) >> >>) >>) >> >>),
     selectors |-> [k \in 1..NumNameSelectors |->
                      IF k = 1 THEN << <<" ","B","e","t","a"," ","P","t","e"," ","L","t","d"," ">> >> ELSE <<>>],
     body_text |-> <<"B","e","t","a"," ","P","t","e"," ","L","t","d","\n","I","n","d","u","s","t","r","y",":"," ","R","e","t","a","i","l","\n","A","b","o","u","t"," ","u","s",":"," ","W","e"," ","s","e","l","l",":"," ","t","h","i","n","g","s","\n","E","m","a","i","l",":","\n","\n","S","e","c","t","o","r"," ","f","o","c","u","s"," ",":"," ","F","o","o","d","\n","n","o"," ","l","a","b","e","l"," ","h","e","r","e">>,
     paragraphs |-> << Filler("d", 51), <<"s","h","o","r","t">>, Filler("e", 60) >>,
     links |-> << Href(<<"h","t","t","p","s",":","/","/","w","w","w",".","s","t","a","r","t","u","p","s","g",".","g","o","v",".","s","g","/","a","b","o","u","t">>), NoHref,
                  Href(<<"m","a","i","l","t","o",":","h","i","@","b","e","t","a",".","i","o">>), Href(<<"h","t","t","p","s",":","/","/","b","e","t","a",".","i","o">>),
                  Href(<<"h","t","t","p",":","/","/","o","t","h","e","r",".","e","x","a","m","p","l","e">>) >>,
     scripts |-> << EmptyScript, BadScript, Script(JList(<< JInt(1) >>)),
                    Script(JDict(<< << <<"i","n","d","u","s","t","r","y">>, JStr(<<"H","e","a","l","t","h">>) >>,
                                    << <<"e","m","a","i","l">>, JStr(<<"j","s","o","n","@","b","e","t","a",".","i","o">>) >>,
                                    << <<"f","u","l","l","_","t","e","x","t">>, JStr(<<"f","r","o","m"," ","j","s","o","n">>) >>,
                                    << <<"p","r","o","f","i","l","e","_","i","d">>, JStr(<<"9","9","9">>) >>,
                                    << <<"t","e","a","m">>, JDict(<< << <<"s","i","z","e">>, JInt(12) >>,
                                                          << <<"l","e","a","d","s">>, JList(<< JStr(<<"a">>), JStr(<<"b">>) >>) >> >>) >> >>)) >>],
    \* 3: no visible text at all; a script block that flattens to full_text
    [js_data |-> JNull,
     selectors |-> NoElements,
     body_text |-> <<>>,
     paragraphs |-> <<>>,
     links |-> << Href(<<"m","a","i","l","t","o",":","x","@","y",".","z">>) >>,
     scripts |-> << Script(JDict(<< << <<"f","u","l","l">>, JDict(<< << <<"t","e","x","t">>, JStr(Filler("j", full_text_limit + 1)) >> >>) >> >>)) >>],
    \* 4: an empty page
    [js_data |-> JDict(<<>>),
     selectors |-> NoElements,
     body_text |-> <<>>,
     paragraphs |-> <<>>,
     links |-> <<>>,
     scripts |-> <<>>],
    \* 5: a long page; the first heading is too long to be a name
    [js_data |-> JList(<< JDict(<< << <<"f","o","u","n","d","e","d","Y","e","a","r">>, JInt(2019) >>,
                                   << <<"f","o","u","n","d","e","d">>, JInt(2020) >> >>) >>),
     selectors |-> [k \in 1..NumNameSelectors |->
                      IF k = 1 THEN << Filler("H", 200), <<>> >>
                      ELSE IF k = 3 THEN << <<"D","e","l","t","a">> >> ELSE <<>>],
     body_text |-> <<"S","t","a","g","e",":"," ","S","e","e","d","\n">> \o Filler("x", full_text_limit + 5),
     paragraphs |-> << Filler("p", 50) >>,
     links |-> << Href(<<"h","t","t","p",":","/","/","d","e","l","t","a",".","e","x","a","m","p","l","e">>) >>,
     scripts |-> <<>>],
    \* 6: the client state gives industry, website, email and description; the
    \* label lines, the paragraphs, the anchors and a script block give others
    [js_data |-> JDict(<< << <<"i","n","d","u","s","t","r","y">>, JStr(<<"F","i","n","t","e","c","h">>) >>,
                          << <<"u","r","l">>, JStr(<<"h","t","t","p","s",":","/","/","a","c","m","e",".","i","o">>) >>,
                          << <<"e","m","a","i","l">>, JStr(<<"a","@","a","c","m","e",".","i","o">>) >>,
                          << <<"a","b","o","u","t">>, JStr(<<"S","h","o","r","t"," ","p","i","t","c","h">>) >> >>),
     selectors |-> NoElements,
     body_text |-> <<"I","n","d","u","s","t","r","y",":"," ","R","e","t","a","i","l","\n","W","e","b","s","i","t","e",":"," ","h","t","t","p",":","/","/","l","a","b","e","l",".","e","x","a","m","p","l","e","\n","A","b","o","u","t",":"," ","L","o","n","g"," ","s","t","o","r","y">>,
     paragraphs |-> << Filler("q", 60) >>,
     links |-> << Href(<<"h","t","t","p",":","/","/","o","t","h","e","r",".","e","x","a","m","p","l","e">>), Href(<<"m","a","i","l","t","o",":","b","@","a","c","m","e",".","i","o">>) >>,
     scripts |-> << Script(JDict(<< << <<"i","n","d","u","s","t","r","y">>, JStr(<<"H","e","a","l","t","h">>) >>,
                                    << <<"w","e","b","s","i","t","e">>, JStr(<<"h","t","t","p",":","/","/","j","s","o","n",".","e","x","a","m","p","l","e">>) >>,
                                    << <<"e","m","a","i","l">>, JStr(<<"j","s","o","n","@","a","c","m","e",".","i","o">>) >>,
                                    << <<"d","e","s","c","r","i","p","t","i","o","n">>, JStr(<<"F","r","o","m"," ","j","s","o","n">>) >> >>)) >>]
>>

\* the URLs scrape_profile is called with directly
ProfileUrls == { base_url \o <<"/","p","r","o","f","i","l","e","s","/","1","2","3","4","5">>, base_url \o <<"/","p","r","o","f","i","l","e","s","/","a","b","o","u","t">> }

(***************************************************************************)
(* State                                                                   *)
(***************************************************************************)
VARIABLES
    pc,              \* position of the single thread of control
    caller,          \* "main" when main() drives the scraper, "direct" for a direct call
    dir,             \* the directory: indices into DirPages, in page order
    cyclic,          \* TRUE when the next-page control never runs out (malformed pagination)
    site,            \* the profile pages: indices into ProfilePages, in the order served
    faults,          \* number of exceptions the collaborators have raised so far
    limit,           \* args.limit (0 for None)
    skip_upload,     \* args.skip_upload
    profile_urls,    \* get_all_startup_urls: the accumulated set
    current_page,    \* get_all_startup_urls: current_page
    no_more_pages,   \* get_all_startup_urls: no_more_pages
    new_urls,        \* get_all_startup_urls: new_urls of the page harvested last (empty once
                     \* the call has returned)
    nav_log,         \* history: the outcome of each tactic of the navigation that followed
                     \* the last harvest, in the order tried (empty once the call has returned)
    harvested,       \* history: the union of the page_urls of every page visited
    pages_harvested, \* history: the number of pages harvested
    discovered,      \* the list get_all_startup_urls returned
    scraper,         \* main: "none", "open" or "closed"
    urls,            \* main: the list handed to the extraction loop
    idx,             \* main: number of URLs of urls already attempted
    all_data,        \* main: the collected records
    attempts,        \* history: <<url, returned>> per call of scrape_profile by main
    output_file,     \* what main wrote to args.output, <<>> of nothing yet
    upload,          \* main: "none", "skipped", "done", "no_credentials" or "failed"
    exit_path,       \* main: "running", or the way the try statement was left: "no_urls",
                     \* "completed", "interrupted" or "error"
    closes,          \* history: number of calls of scraper.close()
    sheet,           \* the rows of the remote worksheet
    profile_url,     \* scrape_profile: its argument
    served,          \* index into ProfilePages of the page the renderer shows
    profile_data,    \* scrape_profile: the record under construction
    page_text,       \* scrape_profile: page_text
    stage_log,       \* history: what each stage of the current call did
    ret              \* scrape_profile: "pending", "None" or "record"

worldVars == <<dir, cyclic, site, limit, skip_upload>>

discVars == <<profile_urls, current_page, no_more_pages, new_urls, nav_log, harvested,
             pages_harvested, discovered>>

mainVars == <<scraper, urls, idx, all_data, attempts, output_file, upload, exit_path, closes,
             sheet>>

profVars == <<profile_url, served, profile_data, page_text, stage_log, ret>>

vars == <<pc, caller, faults, worldVars, discVars, mainVars, profVars>>

\* the directories of the model
Directories == { <<1>>, <<1, 2>>, <<2, 1>>, <<3>>, <<4>>, <<3, 4, 1>> }

\* the directories whose pagination may also be cyclic (navigation never fails)
CyclicDirectories == { <<1, 2>>, <<4>> }

\* bound on the number of exceptions raised in one run
MaxFaults == 2

\* a collaborator may raise now
MayRaise == faults < MaxFaults

\* raising inside a try block of main() or propagating out of a direct call
Raise(to_main) == IF caller = "main" THEN to_main ELSE "raised"

(***************************************************************************)
(* get_all_startup_urls                                                    *)
(***************************************************************************)
\* lines 47-66: load the directory root, wait for the pagination element
\* (only TimeoutException is caught), initialise the locals
GetAllStartupUrls_Begin ==
    /\ pc = "disc_begin"
    /\ \E outcome \in {"loaded", "wait_timeout", "raise"} :
        IF outcome = "raise"
        THEN /\ MayRaise
             /\ faults' = faults + 1
             /\ pc' = Raise("main_except")
             /\ UNCHANGED discVars
        ELSE /\ pc' = "disc_loop"
             /\ UNCHANGED faults
             /\ profile_urls' = {}
             /\ current_page' = 1
             /\ no_more_pages' = FALSE
             /\ new_urls' = {}
             /\ nav_log' = <<>>
             /\ harvested' = {}
             /\ pages_harvested' = 0
             /\ UNCHANGED discovered
    /\ UNCHANGED <<caller, worldVars, mainVars, profVars>>

\* the index of the directory page the renderer shows while current_page is n
ShownPage(n) == dir[((n - 1) % Len(dir)) + 1]

\* line 76
NewUrls(acc, page_urls) == page_urls \ acc

\* lines 76-79: mutation that keeps only the page just harvested
Accumulate_Overwrite(acc, page_urls) == page_urls

\* lines 76-79
Accumulate(acc, page_urls) ==
    IF NewUrls(acc, page_urls) # {} THEN acc \cup NewUrls(acc, page_urls) ELSE acc

\* _extract_urls_from_current_page on each page of the model, for each point at
\* which the renderer can raise (computed once)
PageUrls ==
    [p \in 1..Len(DirPages) |->
        [upto \in 0..Len(DirPages[p].anchors) |->
            [source_ok \in BOOLEAN |->
                ExtractUrlsFromCurrentPage(DirPages[p], upto, source_ok)]]]

\* line 68: mutation with the cap off by one
LoopCondition_OffByOne(page, done) == page <= max_pages + 1 /\ ~done

\* line 68: the loop test
LoopCondition(page, done) == page <= max_pages /\ ~done

\* lines 68-82: the loop test and the harvest of the current page
GetAllStartupUrls_Harvest ==
    /\ pc = "disc_loop"
    /\ LoopCondition(current_page, no_more_pages)
    /\ \E upto \in 0..Len(DirPages[ShownPage(current_page)].anchors), source_ok \in BOOLEAN :
        LET page_urls == PageUrls[ShownPage(current_page)][upto][source_ok]
            raised == (IF upto < Len(DirPages[ShownPage(current_page)].anchors) THEN 1 ELSE 0)
                          + (IF source_ok THEN 0 ELSE 1)
        IN  /\ faults + raised <= MaxFaults
            /\ faults' = faults + raised
            /\ new_urls' = NewUrls(profile_urls, page_urls)
            /\ profile_urls' = Accumulate(profile_urls, page_urls)
            /\ harvested' = harvested \cup page_urls
            /\ pages_harvested' = pages_harvested + 1
    /\ nav_log' = <<>>
    /\ pc' = "disc_navigate"
    /\ UNCHANGED <<caller, worldVars, current_page, no_more_pages, discovered, mainVars, profVars>>

TacticOutcomes == {"clicked", "no_control", "raise", "not_tried"}

\* what a tactic does on the page shown if it is tried: it clicks a control,
\* finds none, or the renderer raises inside it; the script can also report
\* that the active page is the last one
TacticResponses == {"clicked", "no_control", "raise"}

\* lines 152-334: the tactics that run, in order, given what each would do: the
\* `return True` after a click (lines 164, 195, 199) ends the function, every
\* other outcome falls through to the next tactic
TacticsTried(w1, w2, w4) ==
    IF w1 = "clicked" THEN <<w1>>
    ELSE IF w2 = "clicked" THEN <<w1, w2>>
    ELSE <<w1, w2, w4>>

\* the outcome of tactic k in a log of the tactics tried
TacticOutcome(log, k) == IF k <= Len(log) THEN log[k] ELSE "not_tried"

\* lines 140-342: mutation in which an exception of the first tactic ends the
\* navigation with False
NavigateToNextPage_StopsAtRaise(t1, t2, t4) == t1 # "raise" /\ "clicked" \in {t1, t2, t4}

\* _navigate_to_next_page: the tactics in order; t1 is the text-labelled next
\* button, t2 the pagination-scoped next control, t4 the script
NavigateToNextPage(t1, t2, t4) ==
    IF t1 = "clicked" THEN TRUE
    ELSE IF t2 = "clicked" THEN TRUE
    ELSE IF t4 = "clicked" THEN TRUE
    ELSE FALSE

\* lines 84-91
GetAllStartupUrls_Navigate ==
    /\ pc = "disc_navigate"
    /\ \E w1 \in TacticResponses, w2 \in TacticResponses,
          w4 \in TacticResponses \cup {"last_page"} :
        LET tried == TacticsTried(w1, w2, w4)
            raised == Cardinality({ k \in 1..Len(tried) : tried[k] = "raise" })
        IN  \* a control can be clicked only where the directory has a further page
            /\ "clicked" \in Range(tried) => (cyclic \/ current_page < Len(dir))
            /\ faults + raised <= MaxFaults
            /\ faults' = faults + raised
            /\ nav_log' = tried
            /\ IF NavigateToNextPage(TacticOutcome(tried, 1), TacticOutcome(tried, 2),
                                     TacticOutcome(tried, 3))
               THEN current_page' = current_page + 1 /\ UNCHANGED no_more_pages
               ELSE no_more_pages' = TRUE /\ UNCHANGED current_page
    /\ pc' = "disc_loop"
    /\ UNCHANGED <<caller, worldVars, profile_urls, new_urls, harvested, pages_harvested,
                   discovered, mainVars, profVars>>

\* lines 93-97: the loop has ended; sort and return
GetAllStartupUrls_Return ==
    /\ pc = "disc_loop"
    /\ ~LoopCondition(current_page, no_more_pages)
    /\ discovered' = Sorted(profile_urls)
    /\ new_urls' = {}
    /\ nav_log' = <<>>
    /\ UNCHANGED faults
    /\ pc' = IF caller = "main" THEN "main_check_urls" ELSE "disc_returned"
    /\ UNCHANGED <<caller, worldVars, profile_urls, current_page, no_more_pages, harvested,
                   pages_harvested, mainVars, profVars>>


(***************************************************************************)
(* scrape_profile                                                          *)
(***************************************************************************)
url_key == <<"u","r","l">>

profile_id_key == <<"p","r","o","f","i","l","e","_","i","d">>

Stages == <<"client_state", "name", "label_scan", "description", "links", "embedded_json",
            "full_text">>

\* history: stage took place with the given outcome ("ok" or "raised")
Logged(stage, outcome) == stage_log' = Append(stage_log, <<stage, outcome>>)

\* `return` of scrape_profile
ScrapeReturn(value) ==
    /\ ret' = value
    /\ pc' = IF caller = "main" THEN "main_collect" ELSE "sp_returned"

\* lines 531-535: mutation without the handler, the exception leaves the call
OuterExcept_Propagates == pc' = Raise("main_except") /\ UNCHANGED ret

\* lines 531-535: the handler around the whole body
OuterExcept == ScrapeReturn("None")

\* lines 362-380: navigate, wait for the body, start the record
ScrapeProfile_Load ==
    /\ pc = "sp_load"
    /\ \E outcome \in {"loaded", "timeout", "raise"} :
        CASE outcome = "loaded" ->
                /\ served' = site[(Len(attempts) % Len(site)) + 1]
                /\ profile_data' = Put(Put(<<>>, url_key, JStr(profile_url)),
                                       profile_id_key, ExtractProfileId(profile_url))
                /\ pc' = "sp_client_state"
                /\ UNCHANGED <<faults, ret>>
          [] outcome = "timeout" ->
                /\ MayRaise /\ faults' = faults + 1
                /\ ScrapeReturn("None")
                /\ UNCHANGED <<served, profile_data>>
          [] outcome = "raise" ->
                /\ MayRaise /\ faults' = faults + 1
                /\ OuterExcept
                /\ UNCHANGED <<served, profile_data>>
    /\ UNCHANGED <<caller, worldVars, discVars, mainVars, profile_url, page_text, stage_log>>

\* a stage inside its own try block: it either runs or raises and is skipped
GuardedStage(at, stage, result, next) ==
    /\ pc = at
    /\ \/ /\ profile_data' = result
          /\ Logged(stage, "ok")
          /\ UNCHANGED faults
       \/ /\ MayRaise /\ faults' = faults + 1
          /\ Logged(stage, "raised")
          /\ UNCHANGED profile_data
    /\ pc' = next
    /\ UNCHANGED <<caller, worldVars, discVars, mainVars, profile_url, served, page_text, ret>>

\* lines 382-400
ScrapeProfile_ClientState ==
    GuardedStage("sp_client_state", "client_state",
                 ClientStateStage(profile_data, ProfilePages[served].js_data), "sp_name")

\* lines 402-425: each selector has its own try block
ScrapeProfile_Name ==
    /\ pc = "sp_name"
    /\ \E raises \in {{}} \cup {{k} : k \in 1..NumNameSelectors} \cup {1..NumNameSelectors} :
        /\ raises # {} => MayRaise
        /\ faults' = IF raises # {} THEN faults + 1 ELSE faults
        /\ profile_data' = NameHeuristics(profile_data, ProfilePages[served].selectors, raises, 1)
        /\ Logged("name", IF raises = {} THEN "ok" ELSE "raised")
    /\ pc' = "sp_label_scan"
    /\ UNCHANGED <<caller, worldVars, discVars, mainVars, profile_url, served, page_text, ret>>

\* lines 427-468: the body text is read outside any stage-level try block
ScrapeProfile_LabelScan ==
    /\ pc = "sp_label_scan"
    /\ \/ /\ page_text' = ProfilePages[served].body_text
          /\ profile_data' = LabelScan(profile_data, ProfilePages[served].body_text)
          /\ Logged("label_scan", "ok")
          /\ pc' = "sp_description"
          /\ UNCHANGED <<faults, ret>>
       \/ /\ MayRaise /\ faults' = faults + 1
          /\ Logged("label_scan", "raised")
          /\ OuterExcept
          /\ UNCHANGED <<page_text, profile_data>>
    /\ UNCHANGED <<caller, worldVars, discVars, mainVars, profile_url, served>>

\* lines 470-483
ScrapeProfile_Description ==
    GuardedStage("sp_description", "description",
                 DescriptionStage(profile_data, ProfilePages[served].paragraphs), "sp_links")

\* lines 485-503
ScrapeProfile_Links ==
    GuardedStage("sp_links", "links",
                 LinkStage(profile_data, ProfilePages[served].links), "sp_embedded_json")

\* lines 505-523: the page source is read outside any stage-level try block
ScrapeProfile_EmbeddedJson ==
    /\ pc = "sp_embedded_json"
    /\ \/ /\ profile_data' = JsonStage(profile_data, ProfilePages[served].scripts, 1)
          /\ Logged("embedded_json", "ok")
          /\ pc' = "sp_full_text"
          /\ UNCHANGED <<faults, ret>>
       \/ /\ MayRaise /\ faults' = faults + 1
          /\ Logged("embedded_json", "raised")
          /\ OuterExcept
          /\ UNCHANGED profile_data
    /\ UNCHANGED <<caller, worldVars, discVars, mainVars, profile_url, served, page_text>>

\* lines 525-529
ScrapeProfile_FullText ==
    /\ pc = "sp_full_text"
    /\ profile_data' = FullTextStage(profile_data, page_text)
    /\ Logged("full_text", "ok")
    /\ ScrapeReturn("record")
    /\ UNCHANGED <<caller, faults, worldVars, discVars, mainVars, profile_url, served, page_text>>

(***************************************************************************)
(* GoogleSheetsUploader.upload_data                                        *)
(***************************************************************************)
\* lines 84-86: the union of the keys of the records
AllRecordKeys(data) == UNION { DOMAIN data[i] : i \in 1..Len(data) }

\* lines 84-89: mutation that takes the keys of the first record only
Headers_FirstRecord(data) == Sorted(DOMAIN data[1])

\* lines 84-89
Headers(data) == Sorted(AllRecordKeys(data))

\* line 95: str(record.get(key, ''))
Cell(record, key) == IF Has(record, key) THEN PyStr(record[key]) ELSE <<>>

\* line 95
Row(record, headers) == [j \in 1..Len(headers) |-> Cell(record, headers[j])]

\* lines 92-96: the header row and one row per record
Rows(data) == << Headers(data) >> \o [i \in 1..Len(data) |-> Row(data[i], Headers(data))]

\* upload_data(data): nothing happens for an empty list; otherwise the
\* worksheet is cleared and the rows are written. When the worksheet raises,
\* the old rows are still there or already cleared.
UploadDataCall(data, result) ==
    IF result = "ok"
    THEN /\ sheet' = IF data = <<>> THEN sheet ELSE Rows(data)
         /\ UNCHANGED faults
    ELSE /\ data # <<>>
         /\ MayRaise /\ faults' = faults + 1
         /\ sheet' \in {sheet, <<>>}

\* a direct call of upload_data
UploadData ==
    /\ pc = "up_begin"
    /\ \E result \in {"ok", "raise"} :
        /\ UploadDataCall(all_data, result)
        /\ pc' = IF result = "ok" THEN "up_returned" ELSE "raised"
    /\ UNCHANGED <<caller, worldVars, discVars, scraper, urls, idx, all_data, attempts,
                   output_file, upload, exit_path, closes, profVars>>

(***************************************************************************)
(* main                                                                    *)
(***************************************************************************)
\* lines 53-57: construct the scraper (starts the renderer)
Main_Init ==
    /\ pc = "main_begin"
    /\ \/ /\ scraper' = "open"
          /\ pc' = "disc_begin"
          /\ UNCHANGED faults
       \/ /\ MayRaise /\ faults' = faults + 1
          /\ pc' = "main_except"
          /\ UNCHANGED scraper
    /\ UNCHANGED <<caller, worldVars, discVars, urls, idx, all_data, attempts, output_file,
                   upload, exit_path, closes, sheet, profVars>>

\* urls[:args.limit] when args.limit is set
Limited(list, n) == IF n # 0 THEN Prefix(list, n) ELSE list

\* lines 63-81: leave when nothing was found, else truncate and start the loop
Main_CheckUrls ==
    /\ pc = "main_check_urls"
    /\ IF discovered = <<>>
       THEN pc' = "main_finally" /\ exit_path' = "no_urls" /\ UNCHANGED <<urls, all_data, idx>>
       ELSE /\ urls' = Limited(discovered, limit)
            /\ all_data' = <<>>
            /\ idx' = 0
            /\ pc' = "main_loop"
            /\ UNCHANGED exit_path
    /\ UNCHANGED <<caller, faults, worldVars, discVars, scraper, attempts, output_file, upload,
                   closes, sheet, profVars>>

\* lines 82-84 and 90: the next URL is handed to scrape_profile, or the loop ends
Main_Loop ==
    /\ pc = "main_loop"
    /\ IF idx < Len(urls)
       THEN /\ profile_url' = urls[idx + 1]
            /\ profile_data' = <<>>
            /\ page_text' = <<>>
            /\ stage_log' = <<>>
            /\ ret' = "pending"
            /\ pc' = "sp_load"
       ELSE /\ pc' = "main_save"
            /\ UNCHANGED <<profile_url, profile_data, page_text, stage_log, ret>>
    /\ UNCHANGED <<caller, faults, worldVars, discVars, mainVars, served>>

\* lines 85-88: mutation that appends whatever scrape_profile returned
Collect_Placeholder(list, value, data) == Append(list, data)

\* lines 85-88: `if data: all_data.append(data)`
Collect(list, value, data) == IF value = "record" THEN Append(list, data) ELSE list

Main_Collect ==
    /\ pc = "main_collect"
    /\ all_data' = Collect(all_data, ret, profile_data)
    /\ attempts' = Append(attempts, [url |-> profile_url, returned |-> ret,
                                     data |-> IF ret = "record" THEN profile_data ELSE <<>>])
    /\ idx' = idx + 1
    /\ pc' = "main_loop"
    /\ UNCHANGED <<caller, faults, worldVars, discVars, scraper, urls, output_file, upload,
                   exit_path, closes, sheet, profVars>>

\* lines 96-97: mutation that leaves the file empty
Written_Nothing(list) == <<>>

\* lines 96-97: the content of the output file once json.dump has written list
Written(list) == <<list>>

\* lines 92-98: write the JSON file
Main_Save ==
    /\ pc = "main_save"
    /\ \/ /\ output_file' = Written(all_data)
          /\ pc' = "main_upload"
          /\ UNCHANGED faults
       \/ /\ MayRaise /\ faults' = faults + 1
          /\ pc' = "main_except"
          /\ UNCHANGED output_file
    /\ UNCHANGED <<caller, worldVars, discVars, scraper, urls, idx, all_data, attempts, upload,
                   exit_path, closes, sheet, profVars>>

\* lines 100-123: the upload, inside its own try block: the uploader is
\* constructed (it authenticates) and upload_data is called
Main_Upload ==
    /\ pc = "main_upload"
    /\ IF skip_upload
       THEN upload' = "skipped" /\ UNCHANGED <<faults, sheet>>
       ELSE \/ upload' = "done" /\ UploadDataCall(all_data, "ok")
            \/ upload' = "failed" /\ UploadDataCall(all_data, "raise")
            \/ /\ MayRaise /\ faults' = faults + 1
               /\ upload' \in {"no_credentials", "failed"}
               /\ UNCHANGED sheet
    /\ exit_path' = "completed"
    /\ pc' = "main_finally"
    /\ UNCHANGED <<caller, worldVars, discVars, scraper, urls, idx, all_data, attempts,
                   output_file, closes, profVars>>

\* lines 125-133: mutation in which a handler leaves main without the finally clause
HandlerExit_SkipsFinally == "main_done"

\* lines 125-133: after a handler of the try statement the finally clause runs
HandlerExit == "main_finally"

\* the positions inside the body of main's try statement
TryBody == {"main_begin", "disc_begin", "disc_loop", "disc_navigate", "main_check_urls",
            "main_loop", "sp_load", "sp_client_state", "sp_name", "sp_label_scan",
            "sp_description", "sp_links", "sp_embedded_json", "sp_full_text", "main_collect",
            "main_save", "main_upload"}

\* lines 125-126: the user interrupts the run; no `except Exception` on the way
\* catches KeyboardInterrupt, main's own handler does
Main_Interrupt ==
    /\ pc \in TryBody
    /\ MayRaise /\ faults' = faults + 1
    /\ exit_path' = "interrupted"
    /\ pc' = HandlerExit
    /\ UNCHANGED <<caller, worldVars, discVars, scraper, urls, idx, all_data, attempts,
                   output_file, upload, closes, sheet, profVars>>

\* lines 127-130
Main_Except ==
    /\ pc = "main_except"
    /\ exit_path' = "error"
    /\ pc' = HandlerExit
    /\ UNCHANGED <<caller, faults, worldVars, discVars, scraper, urls, idx, all_data, attempts,
                   output_file, upload, closes, sheet, profVars>>

\* lines 131-133 and StartupSGScraper.close
Main_Finally ==
    /\ pc = "main_finally"
    /\ scraper' = IF scraper = "open" THEN "closed" ELSE scraper
    /\ closes' = IF scraper = "open" THEN closes + 1 ELSE closes
    /\ pc' = "main_done"
    /\ UNCHANGED <<caller, faults, worldVars, discVars, urls, idx, all_data, attempts,
                   output_file, upload, exit_path, sheet, profVars>>

(***************************************************************************)
(* Specifications                                                          *)
(***************************************************************************)
InitCommon ==
    /\ faults = 0
    /\ profile_urls = {} /\ current_page = 1 /\ no_more_pages = FALSE
    /\ new_urls = {} /\ nav_log = <<>>
    /\ harvested = {} /\ pages_harvested = 0 /\ discovered = <<>>
    /\ urls = <<>> /\ idx = 0 /\ all_data = <<>> /\ attempts = <<>>
    /\ output_file = <<>> /\ upload = "none"
    /\ exit_path = "running" /\ closes = 0 /\ sheet = <<>>
    /\ served = 0 /\ profile_data = <<>> /\ page_text = <<>>
    /\ stage_log = <<>> /\ ret = "pending"

\* a direct call of get_all_startup_urls on any directory of the model
InitDiscovery ==
    /\ pc = "disc_begin" /\ caller = "direct" /\ scraper = "open"
    /\ dir \in Directories /\ cyclic \in BOOLEAN
    /\ cyclic => dir \in CyclicDirectories
    /\ site = <<1>> /\ limit = 0 /\ skip_upload = TRUE
    /\ profile_url = <<>>
    /\ InitCommon

NextDiscovery ==
    \/ GetAllStartupUrls_Begin
    \/ GetAllStartupUrls_Harvest
    \/ GetAllStartupUrls_Navigate
    \/ GetAllStartupUrls_Return

SpecDiscovery == InitDiscovery /\ [][NextDiscovery]_vars

\* a direct call of scrape_profile on any page of the model
InitProfile ==
    /\ pc = "sp_load" /\ caller = "direct" /\ scraper = "open"
    /\ dir = <<1>> /\ cyclic = FALSE
    /\ site \in { <<p>> : p \in 1..Len(ProfilePages) }
    /\ limit = 0 /\ skip_upload = TRUE
    /\ profile_url \in ProfileUrls
    /\ InitCommon

NextProfile ==
    \/ ScrapeProfile_Load
    \/ ScrapeProfile_ClientState
    \/ ScrapeProfile_Name
    \/ ScrapeProfile_LabelScan
    \/ ScrapeProfile_Description
    \/ ScrapeProfile_Links
    \/ ScrapeProfile_EmbeddedJson
    \/ ScrapeProfile_FullText

SpecProfile == InitProfile /\ [][NextProfile]_vars

\* a record with the given <<key, value>> pairs
RECURSIVE Record(_)
Record(pairs) ==
    IF pairs = <<>> THEN <<>>
    ELSE Put(Record(SubSeq(pairs, 1, Len(pairs) - 1)), pairs[Len(pairs)][1], pairs[Len(pairs)][2])

\* the records upload_data is called with directly
SampleRecords == <<
    Record(<< << url_key, JStr(<<"u","1">>) >>, << name_key, JStr(<<"A","c","m","e">>) >> >>),
    Record(<< << url_key, JStr(<<"u","2">>) >>, << <<"i","n","d","u","s","t","r","y">>, JStr(<<"F","i","n","t","e","c","h">>) >> >>),
    Record(<< << url_key, JStr(<<"u","3">>) >>, << profile_id_key, JNull >>, << name_key, JStr(<<>>) >> >>),
    Record(<< << <<"N","a","m","e">>, JStr(<<"N">>) >>, << <<"f","o","u","n","d","e","d">>, JInt(2019) >> >>),
    Record(<<>>) >>

\* largest number of records in a direct call of upload_data
MaxRecords == 3

\* rows a worksheet may hold from an earlier upload
OldSheet == << << <<"o","l","d">> >> >>

\* a direct call of upload_data on any list of up to MaxRecords sample records
InitUpload ==
    /\ pc = "up_begin" /\ caller = "direct" /\ scraper = "none"
    /\ dir = <<1>> /\ cyclic = FALSE /\ site = <<1>> /\ limit = 0 /\ skip_upload = FALSE
    /\ profile_url = <<>>
    /\ faults = 0
    /\ profile_urls = {} /\ current_page = 1 /\ no_more_pages = FALSE
    /\ new_urls = {} /\ nav_log = <<>>
    /\ harvested = {} /\ pages_harvested = 0 /\ discovered = <<>>
    /\ urls = <<>> /\ idx = 0 /\ attempts = <<>>
    /\ output_file = <<>> /\ upload = "none"
    /\ exit_path = "running" /\ closes = 0
    /\ served = 0 /\ profile_data = <<>> /\ page_text = <<>>
    /\ stage_log = <<>> /\ ret = "pending"
    /\ sheet \in {<<>>, OldSheet}
    /\ \E n \in 0..MaxRecords :
          all_data \in [1..n -> Range(SampleRecords)]

NextUpload == UploadData

SpecUpload == InitUpload /\ [][NextUpload]_vars

\* the directories and sites main() is run on
MainDirectories == { <<1>>, <<1, 2>>, <<4>> }

MainSites == { <<1, 2, 4>>, <<5, 3>> }

\* largest args.limit of the model
MaxLimit == 2

\* a run of main()
Init ==
    /\ pc = "main_begin" /\ caller = "main" /\ scraper = "none"
    /\ dir \in MainDirectories /\ cyclic = FALSE
    /\ site \in MainSites
    /\ limit \in 0..MaxLimit /\ skip_upload \in BOOLEAN
    /\ profile_url = <<>>
    /\ InitCommon

Next ==
    \/ Main_Init
    \/ GetAllStartupUrls_Begin
    \/ GetAllStartupUrls_Harvest
    \/ GetAllStartupUrls_Navigate
    \/ GetAllStartupUrls_Return
    \/ Main_CheckUrls
    \/ Main_Loop
    \/ ScrapeProfile_Load
    \/ ScrapeProfile_ClientState
    \/ ScrapeProfile_Name
    \/ ScrapeProfile_LabelScan
    \/ ScrapeProfile_Description
    \/ ScrapeProfile_Links
    \/ ScrapeProfile_EmbeddedJson
    \/ ScrapeProfile_FullText
    \/ Main_Collect
    \/ Main_Save
    \/ Main_Upload
    \/ Main_Interrupt
    \/ Main_Except
    \/ Main_Finally

Spec == Init /\ [][Next]_vars


(***************************************************************************)
(* Properties                                                              *)
(***************************************************************************)
\* positions of scrape_profile at which a stage is about to run
StagePositions == {"sp_client_state", "sp_name", "sp_label_scan", "sp_description", "sp_links",
                   "sp_embedded_json", "sp_full_text"}

\* a stage step leaves every populated field among keys as it is
KeepsPopulated(keys) ==
    pc \in StagePositions =>
        \A k \in (DOMAIN profile_data) \cap keys :
            Truthy(profile_data[k]) => (Has(profile_data', k) /\ profile_data'[k] = profile_data[k])

AllKeys == (DOMAIN profile_data) \cup {full_text_key}

\* every stage of the call ran, none raised
AllStagesOk ==
    /\ Len(stage_log) = Len(Stages)
    /\ \A i \in 1..Len(Stages) : stage_log[i] = <<Stages[i], "ok">>

StrValue(d, k, s) == Has(d, k) /\ d[k] = JStr(s)

\* C1 as stated: first-writer-wins for every field and every pair of stages:
\* no stage step changes a field that already holds a non-empty value.
C1_FirstWriterWinsEveryField == [][KeepsPopulated(AllKeys)]_vars

\* C1 amended: first-writer-wins for every field other than full_text: no stage
\* step changes a field other than full_text that already holds a non-empty
\* value (the full-text stage replaces full_text whenever the visible text is
\* non-empty).
C1_FirstWriterWinsExceptFullText == [][KeepsPopulated(AllKeys \ {full_text_key})]_vars

\* C1 witness: the page with conflicting sources was extracted without a fault;
\* industry keeps the client-state value although the label line and the JSON
\* block give other values, and description keeps the label value although
\* paragraphs qualify.
C1_Witness ==
    /\ pc = "sp_returned" /\ ret = "record" /\ served = 2 /\ AllStagesOk
    /\ StrValue(profile_data, <<"i","n","d","u","s","t","r","y">>, <<"F","i","n","t","e","c","h">>)
    /\ StrValue(profile_data, <<"d","e","s","c","r","i","p","t","i","o","n">>, <<"W","e"," ","s","e","l","l",":"," ","t","h","i","n","g","s">>)
    /\ StrValue(profile_data, <<"n","a","m","e">>, <<"B","e","t","a">>)

\* C2: scrape_profile never raises past its boundary: a direct call ends with
\* None or a record, never with an exception, and a record is returned only
\* after the whole stage sequence ran to its end.
C2_NeverRaises ==
    /\ pc # "raised"
    /\ pc = "sp_returned" => ret \in {"None", "record"}
    /\ ret = "record" =>
          /\ pc = "sp_returned"
          /\ Len(stage_log) = Len(Stages)
          /\ \A i \in 1..Len(Stages) : stage_log[i][1] = Stages[i]

\* C2 witness: the renderer raised while the body text was read, after an
\* earlier stage had raised too, and the call returned None.
C2_Witness ==
    /\ pc = "sp_returned" /\ ret = "None" /\ faults = 2
    /\ stage_log[Len(stage_log)] = <<"label_scan", "raised">>

\* C3 as stated: once the page has loaded, an exception inside any single
\* stage leaves the later stages running and the call returns a record.
C3_StagesIndependent ==
    (pc = "sp_returned" /\ served # 0) =>
        /\ ret = "record"
        /\ Len(stage_log) = Len(Stages)

\* the records of the successful attempts, in attempt order
RECURSIVE SuccessfulRecords(_)
SuccessfulRecords(list) ==
    IF list = <<>> THEN <<>>
    ELSE (IF list[1].returned = "record" THEN <<list[1].data>> ELSE <<>>)
             \o SuccessfulRecords(Tail(list))

\* C4: every URL of the list is attempted exactly once in list order, a failed
\* or timed-out URL adds no record and does not stop the loop, and the result
\* is exactly the records of the successful URLs in order.
C4_LoopResult ==
    /\ Len(attempts) = idx
    /\ Len(attempts) <= Len(urls)
    /\ \A k \in 1..Len(attempts) : attempts[k].url = urls[k]
    /\ all_data = SuccessfulRecords(attempts)
    /\ (pc \in {"main_save", "main_upload"} \/ output_file # <<>>) =>
          /\ Len(attempts) = Len(urls)
          /\ \A r \in Range(all_data) : Has(r, url_key)

\* C4 witness: the loop ended after a failed first URL and a successful second.
C4_Witness ==
    /\ pc = "main_save" /\ Len(urls) = 2
    /\ attempts[1].returned = "None" /\ attempts[2].returned = "record"
    /\ Len(all_data) = 1 /\ all_data[1][url_key] = JStr(urls[2])

url_A == base_url \o <<"/","p","r","o","f","i","l","e","s","/","1">>

url_B == base_url \o <<"/","p","r","o","f","i","l","e","s","/","2">>

url_C == base_url \o <<"/","p","r","o","f","i","l","e","s","/","3">>

\* C5: the returned list is exactly the union of the sets harvested on the
\* pages visited, without duplicates and in ascending order; the directory with
\* pages {A, B} and {B, C} yields [A, B, C].
C5_SortedUnion ==
    pc = "disc_returned" =>
        /\ Range(discovered) = harvested
        /\ \A i \in 1..Len(discovered) : \A j \in 1..Len(discovered) :
              i < j => StrLess(discovered[i], discovered[j])
        /\ (dir = <<1, 2>> /\ harvested = {url_A, url_B, url_C})
              => discovered = <<url_A, url_B, url_C>>

\* C5 witness: the two-page directory {A, B}, {B, C} was harvested in full.
C5_Witness ==
    /\ pc = "disc_returned" /\ dir = <<1, 2>> /\ ~cyclic /\ faults = 0
    /\ pages_harvested = 2
    /\ discovered = <<url_A, url_B, url_C>>

IsAbsolute(u) == StartsWith(u, <<"h","t","t","p",":","/","/">>) \/ StartsWith(u, <<"h","t","t","p","s",":","/","/">>)

HasNumericProfileId(u) ==
    \E i \in 1..Len(u) :
        /\ OccursAt(u, profiles_marker, i)
        /\ i + Len(profiles_marker) <= Len(u)
        /\ u[i + Len(profiles_marker)] \in Digits

\* C6 as stated: every URL of the returned list is absolute and contains
\* /profiles/ followed by a numeric identifier.
C6_DetailUrlsOnly ==
    pc = "disc_returned" =>
        \A u \in Range(discovered) : IsAbsolute(u) /\ HasNumericProfileId(u)

\* a measure of the work get_all_startup_urls has left
Variant ==
    CASE pc = "disc_begin" -> 2 * max_pages + 4
      [] pc = "disc_loop" ->
            IF no_more_pages THEN 1 ELSE 2 * (max_pages + 1 - current_page) + 2
      [] pc = "disc_navigate" -> 2 * (max_pages + 1 - current_page) + 1
      [] OTHER -> 0

\* C7: discovery terminates, and it harvests at most max_pages pages even when
\* every navigation succeeds: every step of the call decreases a measure that
\* never goes below zero, and the number of pages harvested never exceeds
\* max_pages.
C7_Terminates ==
    /\ [][Variant' < Variant]_vars
    /\ [](Variant >= 0)
    /\ [](pages_harvested <= max_pages)

\* C7 witness: cyclic pagination; the call returned after max_pages pages.
C7_Witness == pc = "disc_returned" /\ cyclic /\ pages_harvested = max_pages

\* C8 as stated: every id found in the client-state tree of a visited page
\* yields its detail URL in the result.
C8_ClientStateIds ==
    pc = "disc_returned" =>
        \A n \in 1..pages_harvested :
            \A id \in Range(ExtractIdsFromData(DirPages[ShownPage(n)].state)) :
                (base_url \o profiles_marker \o id) \in Range(discovered)

\* C9 as stated: the page with client state {companyName: Acme, sector:
\* Fintech} and the body line "Founded: 2019" gives name, sector and founded.
C9_MixedCaseKeys ==
    (pc = "sp_returned" /\ ret = "record" /\ served = 1 /\ AllStagesOk) =>
        /\ StrValue(profile_data, <<"n","a","m","e">>, <<"A","c","m","e">>)
        /\ StrValue(profile_data, <<"s","e","c","t","o","r">>, <<"F","i","n","t","e","c","h">>)
        /\ StrValue(profile_data, <<"f","o","u","n","d","e","d">>, <<"2","0","1","9">>)

\* C10 as stated: every returned record has full_text, of at most 3000
\* characters.
C10_FullTextBounded ==
    ret = "record" =>
        /\ Has(profile_data, full_text_key)
        /\ profile_data[full_text_key].t = "str"
        /\ Len(profile_data[full_text_key].s) <= full_text_limit

\* C17: a navigation tries the tactics in their fixed order and never raises:
\* a tactic runs only if no earlier one clicked, a tactic that raises or finds
\* no control is followed by the next one, the navigation succeeds exactly when
\* the last tactic tried clicked a control, and it fails only after all three
\* tactics were tried without a click; a directory of one page without any
\* pagination control is discovered as a single page.
C17_TacticOrder ==
    /\ [][pc = "disc_navigate" =>
            /\ pc' = "disc_loop"
            /\ Len(nav_log') \in 1..3
            /\ \A k \in 1..(Len(nav_log') - 1) : nav_log'[k] # "clicked"
            /\ Len(nav_log') < 3 => nav_log'[Len(nav_log')] = "clicked"
            /\ (nav_log'[Len(nav_log')] = "clicked")
                  <=> (current_page' = current_page + 1 /\ ~no_more_pages')
            /\ no_more_pages'
                  <=> (Len(nav_log') = 3 /\ \A k \in 1..3 : nav_log'[k] # "clicked")]_vars
    /\ []((pc = "disc_returned" /\ Len(dir) = 1 /\ ~cyclic)
              => (pages_harvested = 1 /\ current_page = 1 /\ no_more_pages))

\* C17 witness: the first tactic raised, the second found no control and the
\* script clicked; discovery went on to the second page.
C17_Witness ==
    /\ pc = "disc_loop" /\ nav_log = <<"raise", "no_control", "clicked">>
    /\ current_page = 2 /\ ~no_more_pages

\* C18 as stated: an iteration that contributes no new URL ends the loop: every
\* harvest but the first follows an iteration that found a new URL.
C18_StopsWithoutNewUrls ==
    [][(pc = "disc_loop" /\ pc' = "disc_navigate" /\ pages_harvested > 0)
          => new_urls # {}]_vars

\* C11 as stated: the returned record has the scraped URL as url, and a
\* profile_id given by the URL alone: the digits after /profiles/, and nothing
\* (absent or empty) when the URL has no such segment.
C11_UrlAndProfileId ==
    ret = "record" =>
        /\ StrValue(profile_data, url_key, profile_url)
        /\ profile_url = base_url \o <<"/","p","r","o","f","i","l","e","s","/","1","2","3","4","5">>
              => StrValue(profile_data, profile_id_key, <<"1","2","3","4","5">>)
        /\ ~HasNumericProfileId(profile_url) => Unset(profile_data, profile_id_key)

\* the fields the client-state stage of the current call set to a non-empty value
ClientStateFields ==
    LET after == ClientStateStage(Put(Put(<<>>, url_key, JStr(profile_url)),
                                      profile_id_key, ExtractProfileId(profile_url)),
                                  ProfilePages[served].js_data)
    IN  [k \in { x \in (DOMAIN after) \ {url_key, profile_id_key} : Truthy(after[x]) }
            |-> after[k]]

\* C16: when the client-state stage ran, the returned record has, for every
\* field that stage set to a non-empty value, exactly that value; on the page
\* whose client state gives industry Fintech while its label line says Retail
\* and its script block Health, the record has industry Fintech.
C16_ClientStateWins ==
    (ret = "record" /\ stage_log[1] = <<"client_state", "ok">>) =>
        /\ \A k \in DOMAIN ClientStateFields :
              Has(profile_data, k) /\ profile_data[k] = ClientStateFields[k]
        /\ served \in {2, 6} => StrValue(profile_data, <<"i","n","d","u","s","t","r","y">>, <<"F","i","n","t","e","c","h">>)

\* C16 witness: the page whose every later source disagrees with the client
\* state was extracted in full and the record has the client-state values.
C16_Witness ==
    /\ pc = "sp_returned" /\ ret = "record" /\ served = 6 /\ AllStagesOk
    /\ StrValue(profile_data, <<"i","n","d","u","s","t","r","y">>, <<"F","i","n","t","e","c","h">>)
    /\ StrValue(profile_data, <<"w","e","b","s","i","t","e">>, <<"h","t","t","p","s",":","/","/","a","c","m","e",".","i","o">>)
    /\ StrValue(profile_data, <<"e","m","a","i","l">>, <<"a","@","a","c","m","e",".","i","o">>)
    /\ StrValue(profile_data, <<"d","e","s","c","r","i","p","t","i","o","n">>, <<"S","h","o","r","t"," ","p","i","t","c","h">>)

\* the positions of the anchors of the page served whose href passes test
LinkPositions(Test(_)) ==
    { i \in 1..Len(ProfilePages[served].links) :
        /\ ProfilePages[served].links[i].present
        /\ Test(ProfilePages[served].links[i].href) }

FirstLink(positions) ==
    ProfilePages[served].links[CHOOSE i \in positions : \A j \in positions : i <= j].href

IsExternalHttp(href) == StartsWith(href, <<"h","t","t","p">>) /\ ~Contains(href, <<"s","t","a","r","t","u","p","s","g",".","g","o","v",".","s","g">>)

IsMailto(href) == StartsWith(href, <<"m","a","i","l","t","o",":">>)

\* C19 as stated: when the link stage runs with website unset (absent or empty)
\* and the page has an external http link, website becomes the first such
\* href; likewise email and the first mailto: href without its scheme; a
\* populated website or email is left as it is.
C19_LinkHarvest ==
    [][(pc = "sp_links" /\ stage_log' = Append(stage_log, <<"links", "ok">>)) =>
          /\ (Unset(profile_data, website_key) /\ LinkPositions(IsExternalHttp) # {})
                => StrValue(profile_data', website_key, FirstLink(LinkPositions(IsExternalHttp)))
          /\ (Unset(profile_data, email_key) /\ LinkPositions(IsMailto) # {})
                => StrValue(profile_data', email_key,
                            SubSeq(FirstLink(LinkPositions(IsMailto)), Len(<<"m","a","i","l","t","o",":">>) + 1,
                                   Len(FirstLink(LinkPositions(IsMailto)))))
          /\ \A k \in {website_key, email_key} :
                ~Unset(profile_data, k) => profile_data'[k] = profile_data[k]]_vars

\* C12: whenever the upload is attempted or was attempted, the output file
\* holds the complete list of collected records; the upload step, failing or
\* not, leaves the file as it is and the run completes without reaching the
\* handler for unexpected errors.
C12_SavedBeforeUpload ==
    /\ [](pc = "main_upload" => output_file = <<all_data>>)
    /\ [](upload \in {"done", "no_credentials", "failed"} => output_file = <<all_data>>)
    /\ [][pc = "main_upload" => output_file' = output_file]_vars
    /\ [][(pc = "main_upload" /\ upload' \in {"no_credentials", "failed"})
              => (pc' = "main_finally" /\ exit_path' = "completed")]_vars
    /\ [](upload \in {"no_credentials", "failed"} => exit_path = "completed")

\* C12 witness: the run ended after a failed upload with its records on file.
C12_Witness ==
    /\ pc = "main_done" /\ upload = "failed" /\ exit_path = "completed"
    /\ all_data # <<>> /\ output_file = <<all_data>>

\* C13: close() is called at most once, and when main has returned it has been
\* called exactly once if the scraper was constructed (never otherwise); the
\* scraper is released only on the way out, on every exit path.
C13_ClosedOnce ==
    /\ closes <= 1
    /\ scraper = "closed" <=> closes = 1
    /\ scraper = "closed" => pc = "main_done"
    /\ pc = "main_done" =>
          /\ scraper \in {"none", "closed"}
          /\ exit_path \in {"no_urls", "completed", "interrupted", "error"}
          /\ exit_path \in {"no_urls", "completed"} => closes = 1
    /\ (pc \notin {"main_begin", "main_except", "main_finally", "main_done"}) => scraper = "open"

\* C13 witness: the run was interrupted in the middle of an extraction and the
\* scraper was closed once.
C13_Witness ==
    /\ pc = "main_done" /\ exit_path = "interrupted" /\ closes = 1 /\ scraper = "closed"
    /\ ret = "pending" /\ Len(stage_log) = 3 /\ Len(attempts) = 1

\* the keys of the records of list
KeysOf(list) == UNION { DOMAIN list[i] : i \in 1..Len(list) }

\* C14: after upload_data on a non-empty list the sheet holds a header row,
\* the union of the keys of all records in ascending order, then one row per
\* record in input order; a cell is the record's value for the column (its
\* text when the value is not a string) and empty when the record lacks the
\* field. Records {url, name} and {url, industry} give the header
\* [industry, name, url] and two rows with one empty cell each.
C14_SheetRows ==
    (pc = "up_returned" /\ all_data # <<>>) =>
        /\ Len(sheet) = Len(all_data) + 1
        /\ Range(sheet[1]) = KeysOf(all_data)
        /\ \A i \in 1..Len(sheet[1]) : \A j \in 1..Len(sheet[1]) :
              i < j => StrLess(sheet[1][i], sheet[1][j])
        /\ \A i \in 1..Len(all_data) :
              /\ Len(sheet[i + 1]) = Len(sheet[1])
              /\ \A j \in 1..Len(sheet[1]) :
                    LET key == sheet[1][j]
                        cell == sheet[i + 1][j]
                    IN  IF key \notin DOMAIN all_data[i] THEN cell = <<>>
                        ELSE CASE all_data[i][key].t = "str" -> cell = all_data[i][key].s
                               [] all_data[i][key].t = "int" -> cell = IntToStr(all_data[i][key].n)
                               [] OTHER -> cell = <<"N","o","n","e">>
        /\ all_data = << SampleRecords[1], SampleRecords[2] >> =>
              sheet = << << <<"i","n","d","u","s","t","r","y">>, <<"n","a","m","e">>, <<"u","r","l">> >>,
                         << <<>>, <<"A","c","m","e">>, <<"u","1">> >>,
                         << <<"F","i","n","t","e","c","h">>, <<>>, <<"u","2">> >> >>

\* C14 witness: the records {url, name} and {url, industry} were uploaded over
\* an older sheet.
C14_Witness ==
    /\ pc = "up_returned" /\ all_data = << SampleRecords[1], SampleRecords[2] >>
    /\ Len(sheet) = 3 /\ sheet[1] = << <<"i","n","d","u","s","t","r","y">>, <<"n","a","m","e">>, <<"u","r","l">> >>
    /\ sheet[3][2] = <<>>

\* C15 as stated: no failure of the renderer during discovery or extraction
\* reaches main's handler for unexpected errors: from every position of
\* get_all_startup_urls and scrape_profile the run goes on.
C15_RendererFailuresContained ==
    [][(pc \in {"disc_begin", "disc_loop", "disc_navigate", "sp_load"} \cup StagePositions)
          => pc' # "main_except"]_vars

=============================================================================
